---- MODULE Spec2Model ----
(***************************************************************************)
(* Model of src/app.py, the Streamlit script of the finance variance       *)
(* analysis app.  One script run executes the blocks of the file top to    *)
(* bottom: sidebar (credential), data source, pivot preview, context area, *)
(* chat interface.  A widget interaction of the user re-runs the script    *)
(* from the top with the widget values kept by the session.                *)
(***************************************************************************)
EXTENDS Integers, Sequences, FiniteSets, TLC

\* ------------------------------------------------------------------ bounds
\* Longest table (number of data rows) a CSV file of the model holds.
MaxRows == 2

\* ------------------------------------------------------- program constants
\* df.head(20): rows of the raw preview shown when the pivot fails.
PreviewRows == 20

\* Python's None for a string-valued name, and for an object-valued one.
None == "None"
Nothing == [nothing |-> TRUE]
NaN == "NaN"

\* Line 55: the canonical calendar order of the column labels.
month_order ==
    <<"Jan", "Feb", "Mar", "Apr", "May", "Jun",
      "Jul", "Aug", "Sep", "Oct", "Nov", "Dec">>

\* The four columns the script reads by name (lines 49, 52, 76).
RequiredColumns == {"Account", "Month", "Plan", "Actuals"}

\* ------------------------------------------------------------ input values
\* Labels a Month cell of an input file takes: two calendar labels, whose
\* lexicographic order (Feb, Jan) differs from the calendar order, and one
\* label outside month_order.
MonthValues == {"Feb", "Jan", "Q1"}
AccountValues == {"COGS", "Revenue"}
PlanValues == {100}
ActualsValues == {102}

\* Lexicographic order of the labels, as pandas sorts the keys of a pivot.
LexOrder == <<"COGS", "Feb", "Jan", "Q1", "Revenue">>

FullRows ==
    [Account : AccountValues, Month : MonthValues,
     Plan : PlanValues, Actuals : ActualsValues]

Restrict(r, cols) == [c \in cols |-> r[c]]

SeqsUpTo(S, n) == UNION {[1..k -> S] : k \in 0..n}

\* A parsed table: the column names of the header and the data rows.
FramesWith(cols) ==
    {[columns |-> cols, rows |-> rs] :
        rs \in SeqsUpTo({Restrict(r, cols) : r \in FullRows}, MaxRows)}

\* Header sets of the files: all four columns, or one of them absent.
Headers == {RequiredColumns} \cup {RequiredColumns \ {c} : c \in RequiredColumns}

Frames == UNION {FramesWith(h) : h \in Headers}

\* What the user can upload: a CSV that parses to a frame, or bytes that
\* pd.read_csv cannot parse.
Malformed == [garbage |-> TRUE]
Files == Frames \cup {Malformed}

\* sample_data.csv of the working directory, when it exists: the two-row
\* table of the default scenario.
SampleData ==
    [columns |-> RequiredColumns,
     rows |-> <<[Account |-> "Revenue", Month |-> "Jan", Plan |-> 100, Actuals |-> 102],
                [Account |-> "Revenue", Month |-> "Feb", Plan |-> 100, Actuals |-> 95]>>]

Keys == {"", "key"}
Questions == {"", "q1", "q2"}
Notes == {"note"}
DefaultNarrative == "REVENUE VARIANCES"

\* ------------------------------------------------------------ pure helpers
Range(s) == {s[i] : i \in 1..Len(s)}

InOrder(order, S) == SelectSeq(order, LAMBDA x : x \in S)

\* Keys of a pivot axis: the distinct values, sorted.
SortedKeys(S) == InOrder(LexOrder, S)

\* pd.read_csv (lines 32, 36): the parsed frame, or a raised parser error.
ReadCsv(file) ==
    IF file = Malformed
    THEN [raised |-> "ParserError", frame |-> Nothing]
    ELSE [raised |-> None, frame |-> file]

\* df.head(n)
HeadFrame(frame, n) ==
    [frame EXCEPT !.rows = SubSeq(frame.rows, 1, IF Len(frame.rows) < n THEN Len(frame.rows) ELSE n)]

\* Variant: a reshape that does not look for repeated keys (the last row wins).
HasDuplicateEntries_Unchecked(frame) == FALSE

\* DataFrame.pivot refuses an index/columns pair that occurs twice.
HasDuplicateEntries(frame) ==
    \E i, j \in 1..Len(frame.rows) :
        /\ i < j
        /\ frame.rows[i].Account = frame.rows[j].Account
        /\ frame.rows[i].Month = frame.rows[j].Month

\* The cell of a pivot: the value of the row with that key, NaN without one.
CellValue(frame, values, a, m) ==
    LET hits == {i \in 1..Len(frame.rows) :
                    frame.rows[i].Account = a /\ frame.rows[i].Month = m}
    IN IF hits = {} THEN NaN
       ELSE frame.rows[CHOOSE i \in hits : \A j \in hits : j <= i][values]

\* df.pivot(index='Account', columns='Month', values=values), lines 49, 52.
Pivot(frame, values) ==
    IF ~({"Account", "Month", values} \subseteq frame.columns)
    THEN [raised |-> "KeyError", table |-> Nothing]
    ELSE IF HasDuplicateEntries(frame)
    THEN [raised |-> "ValueError", table |-> Nothing]
    ELSE LET accounts == {frame.rows[i].Account : i \in 1..Len(frame.rows)}
             months == {frame.rows[i].Month : i \in 1..Len(frame.rows)}
         IN [raised |-> None,
             table |-> [index |-> SortedKeys(accounts),
                        columns |-> SortedKeys(months),
                        cells |-> [k \in accounts \X months |->
                                      CellValue(frame, values, k[1], k[2])]]]

\* Variant: the columns are left in the order the pivot produced.
AvailableMonths_Unordered(columns) == columns

\* Variant: labels outside month_order are kept, after the calendar ones.
AvailableMonths_KeepUnknown(columns) ==
    InOrder(month_order, Range(columns))
        \o SelectSeq(columns, LAMBDA m : m \notin Range(month_order))

\* Line 58: [m for m in month_order if m in plan_pivot.columns]
AvailableMonths(columns) == InOrder(month_order, Range(columns))

\* Lines 59-60: table[available_months]
SelectColumns(table, cols) ==
    [index |-> table.index,
     columns |-> cols,
     cells |-> [k \in Range(table.index) \X Range(cols) |-> table.cells[k]]]

\* Lines 74-78: the three summary metrics.
Metrics(frame, available_months) ==
    [total_rows |-> Len(frame.rows),
     account_types |-> Cardinality({frame.rows[i].Account : i \in 1..Len(frame.rows)}),
     months |-> Len(available_months)]

\* Variant: the handler catches the duplicate-entry ValueError only.
PivotErrorCaught_ValueErrorOnly(kind) == kind = "ValueError"

\* Line 80: except Exception catches every error the pivot block raises.
PivotErrorCaught(kind) == TRUE

\* Lines 86-121: the default of the context text area.
DefaultContext(upload) == IF upload = Nothing THEN DefaultNarrative ELSE ""

\* Line 123: the value of the text area: its default until the user edits it.
ContextValue(upload, edit) == IF edit = None THEN DefaultContext(upload) ELSE edit

\* Lines 143-147: the prompt embeds context and question verbatim.
FinalPrompt(ctx, q) == <<ctx, q>>

\* Variant: the chat branch tests the question only.
AgentGuard_QuestionOnly(q, key) == q # ""

\* Line 129: if question and api_key
AgentGuard(q, key) == q # "" /\ key # ""

\* Line 160: elif question and not api_key
MissingKeyGuard(q, key) == q # "" /\ key = ""

\* Variant: the agent of the previous run is kept and reused.
NewAgentMemory_Reused(previous) == previous

\* Lines 134-140: a new agent is built in every run that has a question; it
\* starts with no memory of earlier questions.
NewAgentMemory(previous) == <<>>

\* ------------------------------------------------------------------ state
VARIABLES
    secret,         \* st.secrets["GEMINI_API_KEY"], None when not configured
    sample_exists,  \* sample_data.csv is in the working directory
    typed_key,      \* sidebar text input
    uploaded_file,  \* file uploader: Nothing or a file
    context_edit,   \* the user's edit of the context text area, None if untouched
    question,       \* question text input
    pc,             \* the block of the script the current run is about to execute
    api_key,        \* line 18-24
    df,             \* line 32/36
    view,           \* what the pivot/data blocks have put on the page
    context,        \* line 123
    agent,          \* lines 134-140
    result,         \* outcome of the chat block
    last_run        \* what the previous run left in the server process

widgets == <<typed_key, uploaded_file, context_edit, question>>
environment == <<secret, sample_exists>>
run == <<pc, api_key, df, view, context, agent, result>>
vars == <<secret, sample_exists, typed_key, uploaded_file, context_edit, question,
          pc, api_key, df, view, context, agent, result, last_run>>

EmptyView ==
    [load |-> None, plan |-> Nothing, actual |-> Nothing, metrics |-> Nothing,
     pivot_error |-> None, raw |-> Nothing]

\* The names of a run before the script has assigned them.
FreshRun ==
    /\ pc' = "sidebar"
    /\ api_key' = None
    /\ df' = Nothing
    /\ view' = EmptyView
    /\ context' = None
    /\ agent' = Nothing
    /\ result' = "Idle"

Init ==
    /\ secret \in {None} \cup Keys
    /\ sample_exists \in BOOLEAN
    /\ typed_key = ""
    /\ uploaded_file = Nothing
    /\ context_edit = None
    /\ question = ""
    /\ pc = "sidebar"
    /\ api_key = None
    /\ df = Nothing
    /\ view = EmptyView
    /\ context = None
    /\ agent = Nothing
    /\ result = "Idle"
    /\ last_run = [result |-> "Idle", memory |-> <<>>]

\* ---------------------------------------------------------- script blocks
\* Lines 14-26: the secret wins; without one the typed key is used.
SidebarBlock ==
    /\ pc = "sidebar"
    /\ api_key' = IF secret # None THEN secret ELSE typed_key
    /\ pc' = "source"
    /\ UNCHANGED <<environment, widgets, df, view, context, agent, result, last_run>>

\* Lines 29-40: the upload, else the sample file, else stop the run.  An
\* error of pd.read_csv on the upload is not caught: the run ends there.
DataSourceBlock ==
    /\ pc = "source"
    /\ IF uploaded_file # Nothing
       THEN LET r == ReadCsv(uploaded_file)
            IN IF r.raised = None
               THEN /\ df' = r.frame
                    /\ view' = [view EXCEPT !.load = "uploaded"]
                    /\ pc' = "pivot"
               ELSE /\ df' = df
                    /\ view' = [view EXCEPT !.load = r.raised]
                    /\ pc' = "crashed"
       ELSE IF sample_exists
            THEN /\ df' = SampleData
                 /\ view' = [view EXCEPT !.load = "sample"]
                 /\ pc' = "pivot"
            ELSE /\ df' = df
                 /\ view' = [view EXCEPT !.load = "NoData"]
                 /\ pc' = "stopped"
    /\ UNCHANGED <<environment, widgets, api_key, context, agent, result, last_run>>

\* Lines 43-83: both pivots, the column reordering, the two tables and the
\* metrics; any exception of the block shows the error and the raw preview.
PivotBlock ==
    /\ pc = "pivot"
    /\ LET plan_pivot == Pivot(df, "Plan")
           actual_pivot == Pivot(df, "Actuals")
           raised == IF plan_pivot.raised # None
                     THEN plan_pivot.raised ELSE actual_pivot.raised
       IN IF raised = None
          THEN LET available_months == AvailableMonths(plan_pivot.table.columns)
               IN /\ view' = [view EXCEPT
                                !.plan = SelectColumns(plan_pivot.table, available_months),
                                !.actual = SelectColumns(actual_pivot.table, available_months),
                                !.metrics = Metrics(df, available_months)]
                  /\ pc' = "context"
          ELSE IF PivotErrorCaught(raised)
          THEN /\ view' = [view EXCEPT !.pivot_error = raised,
                                       !.raw = HeadFrame(df, PreviewRows)]
               /\ pc' = "context"
          ELSE /\ view' = [view EXCEPT !.pivot_error = raised]
               /\ pc' = "crashed"
    /\ UNCHANGED <<environment, widgets, api_key, df, context, agent, result, last_run>>

\* Lines 86-123.
ContextBlock ==
    /\ pc = "context"
    /\ context' = ContextValue(uploaded_file, context_edit)
    /\ pc' = "chat"
    /\ UNCHANGED <<environment, widgets, api_key, df, view, agent, result, last_run>>

\* Lines 129-147 and 160-161: build the agent and the prompt, or report the
\* missing key, or do nothing without a question.
ChatBlock ==
    /\ pc = "chat"
    /\ IF AgentGuard(question, api_key)
       THEN /\ agent' = [df |-> df,
                         prompt |-> FinalPrompt(context, question),
                         memory |-> NewAgentMemory(last_run.memory)]
            /\ result' = result
            /\ pc' = "invoke"
       ELSE IF MissingKeyGuard(question, api_key)
       THEN /\ agent' = agent
            /\ result' = "PreconditionError"
            /\ pc' = "done"
       ELSE /\ agent' = agent
            /\ result' = result
            /\ pc' = "done"
    /\ UNCHANGED <<environment, widgets, api_key, df, view, context, last_run>>

\* Lines 149-159: agent.invoke returns a response, which is written to the
\* page, or raises, which the except clause turns into an error message.
\* What the library does inside the call is not part of this repository:
\* only the two ways the call can end are modelled.
AgentInvoke ==
    /\ pc = "invoke"
    /\ \E outcome \in {"Answered", "Failed"} : result' = outcome
    /\ agent' = [agent EXCEPT !.memory = Append(@, agent.prompt[2])]
    /\ pc' = "done"
    /\ UNCHANGED <<environment, widgets, api_key, df, view, context, last_run>>

\* ------------------------------------------------------------- user input
RunOver == pc \in {"done", "stopped", "crashed"}

\* Any widget interaction re-runs the script from the top.
Rerun ==
    /\ FreshRun
    /\ last_run' = [result |-> result,
                    memory |-> IF agent = Nothing THEN <<>> ELSE agent.memory]
    /\ UNCHANGED environment

\* The uploader holds one file: the user drops a file into the empty
\* uploader, or removes the file it holds (replacing a file is both).
Upload ==
    /\ RunOver
    /\ uploaded_file = Nothing
    /\ \E f \in Files : uploaded_file' = f
    /\ Rerun
    /\ UNCHANGED <<typed_key, context_edit, question>>

RemoveUpload ==
    /\ RunOver
    /\ uploaded_file # Nothing
    /\ uploaded_file' = Nothing
    /\ Rerun
    /\ UNCHANGED <<typed_key, context_edit, question>>

TypeKey ==
    /\ RunOver
    /\ \E k \in Keys : k # typed_key /\ typed_key' = k
    /\ Rerun
    /\ UNCHANGED <<uploaded_file, context_edit, question>>

\* The text area and the question input are on the page only when the run
\* got to the end of the script.
EditContext ==
    /\ pc = "done"
    /\ \E n \in Notes : n # context_edit /\ context_edit' = n
    /\ Rerun
    /\ UNCHANGED <<typed_key, uploaded_file, question>>

Ask ==
    /\ pc = "done"
    /\ \E q \in Questions : q # question /\ question' = q
    /\ Rerun
    /\ UNCHANGED <<typed_key, uploaded_file, context_edit>>

Next ==
    \/ SidebarBlock
    \/ DataSourceBlock
    \/ PivotBlock
    \/ ContextBlock
    \/ ChatBlock
    \/ AgentInvoke
    \/ Upload
    \/ RemoveUpload
    \/ TypeKey
    \/ EditContext
    \/ Ask

Spec == Init /\ [][Next]_vars

\* ------------------------------------------------------------- properties
\* Vocabulary of the properties, stated without the operators of the script.
PastSource == pc \in {"pivot", "context", "chat", "invoke", "done"}
PastPivot == pc \in {"context", "chat", "invoke", "done"}
PastChat == pc \in {"invoke", "done"}

HasKey == api_key # None /\ api_key # ""

\* The table the data source of this run holds.
SourceTable == IF uploaded_file # Nothing THEN uploaded_file ELSE SampleData

RowIds(frame) == 1..Len(frame.rows)
HasSchema(frame) == RequiredColumns \subseteq frame.columns
KeyPairs(frame) == {<<frame.rows[i].Account, frame.rows[i].Month>> : i \in RowIds(frame)}
UniquePairs(frame) == Cardinality(KeyPairs(frame)) = Len(frame.rows)
AccountsOf(frame) == {frame.rows[i].Account : i \in RowIds(frame)}
MonthsOf(frame) == {frame.rows[i].Month : i \in RowIds(frame)}
Calendar == Range(month_order)
CalendarIndex(m) == CHOOSE i \in 1..Len(month_order) : month_order[i] = m
WellFormed(frame) == HasSchema(frame) /\ UniquePairs(frame) /\ MonthsOf(frame) \subseteq Calendar

NoRepeats(s) == Cardinality(Range(s)) = Len(s)
CalendarOrdered(cols) ==
    /\ Range(cols) \subseteq Calendar
    /\ \A i, j \in 1..Len(cols) : i < j => CalendarIndex(cols[i]) < CalendarIndex(cols[j])

PivotShown == view.plan # Nothing /\ view.actual # Nothing

\* C1: a question reaches the agent only with a loaded dataset and a
\* non-empty credential; a question submitted without credential ends in the
\* precondition error with no agent built or invoked; a run with neither an
\* upload nor the sample file stops before the chat block.
C1_QuestionNeedsDataAndKey ==
    /\ agent # Nothing => /\ df # Nothing
                          /\ df = SourceTable
                          /\ HasKey
                          /\ question # ""
    /\ result \in {"Answered", "Failed"} => agent # Nothing
    /\ (pc = "done" /\ question # "" /\ ~HasKey)
          => (result = "PreconditionError" /\ agent = Nothing)
    /\ (uploaded_file = Nothing /\ ~sample_exists)
          => (~PastSource /\ agent = Nothing /\ result = "Idle")
    /\ pc = "stopped" => view.load = "NoData"

C1_Witness ==
    /\ pc = "done"
    /\ question # ""
    /\ api_key = ""
    /\ result = "PreconditionError"
    /\ df # Nothing

\* C2: for a well-formed dataset with unique (account, period) pairs the
\* displayed plan and actual pivots have the same row keys and the same
\* column keys, the row keys are the accounts of the dataset, and the columns
\* are exactly the periods present, in calendar order (absent periods have
\* no column).
C2_PivotsAligned ==
    (PastPivot /\ WellFormed(df)) =>
        /\ view.pivot_error = None
        /\ PivotShown
        /\ view.plan.index = view.actual.index
        /\ view.plan.columns = view.actual.columns
        /\ Range(view.plan.index) = AccountsOf(df)
        /\ NoRepeats(view.plan.index)
        /\ Range(view.plan.columns) = MonthsOf(df)
        /\ NoRepeats(view.plan.columns)
        /\ CalendarOrdered(view.plan.columns)
        /\ DOMAIN view.plan.cells = AccountsOf(df) \X MonthsOf(df)
        /\ DOMAIN view.actual.cells = AccountsOf(df) \X MonthsOf(df)

C2_Witness ==
    /\ PastPivot
    /\ WellFormed(df)
    /\ uploaded_file # Nothing
    /\ view.plan.columns = <<"Jan", "Feb">>
    /\ view.actual.columns = <<"Jan", "Feb">>
    /\ Cardinality(AccountsOf(df)) = 2

\* C3: for a dataset with a repeated (account, period) pair the pivot block
\* ends in the duplicate-entry error, which is shown, and neither pivot table
\* (nor the metrics) is displayed.
C3_DuplicateKeyRejected ==
    (PastPivot /\ HasSchema(df) /\ ~UniquePairs(df)) =>
        /\ view.pivot_error = "ValueError"
        /\ view.plan = Nothing
        /\ view.actual = Nothing
        /\ view.metrics = Nothing

C3_Witness ==
    /\ PastPivot
    /\ HasSchema(df)
    /\ ~UniquePairs(df)
    /\ view.pivot_error = "ValueError"
    /\ view.raw = df

\* C6 (as claimed): an upload that does not parse, or that parses but lacks a
\* required column, is rejected by the load step: no dataset is bound and the
\* run does not go on to the blocks that consume one.
C6_LoadRejectsBadInput ==
    /\ (uploaded_file = Malformed /\ pc # "sidebar" /\ pc # "source")
          => (df = Nothing /\ view.load = "ParserError" /\ ~PastSource)
    /\ (uploaded_file # Nothing /\ uploaded_file # Malformed
            /\ ~HasSchema(uploaded_file) /\ pc # "sidebar" /\ pc # "source")
          => (df = Nothing /\ ~PastSource)

\* C7: when the pivot block fails on a loaded dataset the run goes on: with a
\* question and a credential present the agent is built over the dataset as
\* loaded, and invoked.
C7_PivotErrorLocal ==
    (view.pivot_error # None) =>
        /\ pc # "crashed"
        /\ df = SourceTable
        /\ (PastChat /\ question # "" /\ HasKey) =>
              /\ agent # Nothing
              /\ agent.df = SourceTable
        /\ (pc = "done" /\ question # "" /\ HasKey) => result \in {"Answered", "Failed"}

C7_Witness ==
    /\ view.pivot_error = "KeyError"
    /\ pc = "done"
    /\ result = "Answered"
    /\ agent.df = uploaded_file

C10_UnknownMonthDropped ==
    (PastPivot /\ HasSchema(df) /\ ~(MonthsOf(df) \subseteq Calendar)) =>
        /\ view.pivot_error # None => ~UniquePairs(df)
        /\ view.pivot_error = None =>
              /\ PivotShown
              /\ Range(view.plan.columns) = MonthsOf(df) \cap Calendar
              /\ Range(view.actual.columns) = MonthsOf(df) \cap Calendar
              /\ view.metrics.months = Cardinality(MonthsOf(df) \cap Calendar)
              /\ view.metrics.total_rows = Len(df.rows)
              /\ view.metrics.account_types = Cardinality(AccountsOf(df))

C10_Witness ==
    /\ PastPivot
    /\ HasSchema(df)
    /\ MonthsOf(df) = {"Jan", "Q1"}
    /\ view.pivot_error = None
    /\ view.plan.columns = <<"Jan">>
    /\ view.metrics.months = 1
    /\ view.metrics.total_rows = 2

====
